---- MODULE Spec2Model ----
(***************************************************************************)
(* Local career-data store of Resume Tailor: the record schema of          *)
(* models.py and the storage engine CareerDataManager of                   *)
(* career_data_manager.py (load / save / cache / backup / restore).        *)
(*                                                                         *)
(* Strings that a validator inspects (emails, phones, dates, skill names,  *)
(* descriptions) are sequences of one-character strings, so the validators *)
(* are computed as the code computes them.  Strings nothing inspects       *)
(* (names, companies, titles) are plain strings.                           *)
(***************************************************************************)
EXTENDS Integers, Sequences, FiniteSets, TLC

(***************************************************************************)
(* Bounds of the model.                                                    *)
(***************************************************************************)
\* CareerData objects alive at once; three are enough for every run below.
MaxObjs == 3
\* Events in a run: calls of the engine, constructions and assignments by the
\* caller, clock ticks, external changes of the file, I/O faults.
MaxEvents == 6
\* Years the start and end dates of a constructed Job are taken from.
MaxYears == 2
\* Examples a constructed Skill is given at most.
MaxExamples == 2

(***************************************************************************)
(* Python values.                                                          *)
(***************************************************************************)
\* None in a field that holds a character sequence, a plain string, a
\* dictionary, a file content and a saved record.
None == <<"None">>
NoneStr == "<None>"
NoDoc == [version |-> "<no document>"]
NoObj == 0
NoTs == 0 - 1

Digits == {"0","1","2","3","4","5","6","7","8","9"}
UpperSeq == <<"A","B","C","D","E","F","G","H","I","J","K","L","M","N","O","P","Q","R","S","T","U","V","W","X","Y","Z">>
LowerSeq == <<"a","b","c","d","e","f","g","h","i","j","k","l","m","n","o","p","q","r","s","t","u","v","w","x","y","z">>
Letters == {UpperSeq[i] : i \in 1..26} \cup {LowerSeq[i] : i \in 1..26}
CharOrder == <<"-","/","0","1","2","3","4","5","6","7","8","9">>

Ord(c) == CHOOSE i \in 1..Len(CharOrder) : CharOrder[i] = c

Lower(c) == IF \E i \in 1..26 : UpperSeq[i] = c THEN LowerSeq[CHOOSE i \in 1..26 : UpperSeq[i] = c] ELSE c

LowerStr(s) == [i \in 1..Len(s) |-> Lower(s[i])]

HasChar(s, c) == \E i \in 1..Len(s) : s[i] = c

HasSub(s, t) == \E i \in 0..(Len(s) - Len(t)) : \A j \in 1..Len(t) : s[i + j] = t[j]

Replace(s, a, b) == [i \in 1..Len(s) |-> IF s[i] = a THEN b ELSE s[i]]

StrLess(a, b) ==
    \/ \E k \in 1..Len(a) :
          /\ k <= Len(b)
          /\ \A j \in 1..(k - 1) : a[j] = b[j]
          /\ Ord(a[k]) < Ord(b[k])
    \/ /\ Len(a) < Len(b)
       /\ \A j \in 1..Len(a) : a[j] = b[j]

WordCount(s) == Cardinality({i \in 1..Len(s) : s[i] # " " /\ (i = 1 \/ s[i - 1] = " ")})

(***************************************************************************)
(* Field patterns of models.py.                                            *)
(***************************************************************************)
IsYM(s) ==
    /\ Len(s) = 7
    /\ \A i \in {1,2,3,4,6,7} : s[i] \in Digits
    /\ s[5] = "-"

IsMY(s) ==
    /\ Len(s) = 7
    /\ \A i \in {1,2,4,5,6,7} : s[i] \in Digits
    /\ s[3] = "/"

PresentStr == <<"P","r","e","s","e","n","t">>
ToStr == <<" ","t","o"," ">>

IsTimeframe(s) ==
    \/ IsYM(s)
    \/ /\ Len(s) = 18
       /\ IsYM(SubSeq(s, 1, 7))
       /\ SubSeq(s, 8, 11) = ToStr
       /\ IsYM(SubSeq(s, 12, 18))
    \/ /\ Len(s) = 18
       /\ IsYM(SubSeq(s, 1, 7))
       /\ SubSeq(s, 8, 11) = ToStr
       /\ SubSeq(s, 12, 18) = PresentStr

DescMinLen == 20
DescMaxLen == 500
DescMinWords == 5
ResultMaxLen == 200
NameMinLen == 2
NameMaxLen == 100
ExamplesMinLen == 1

ValidAchievement(a) ==
    /\ Len(a.description) >= DescMinLen
    /\ Len(a.description) <= DescMaxLen
    /\ WordCount(a.description) >= DescMinWords
    /\ Len(a.company) >= 1
    /\ IsTimeframe(a.timeframe)
    /\ (a.result # None => Len(a.result) <= ResultMaxLen)

BannedGeneric ==
    { <<"t","e","a","m"," ","p","l","a","y","e","r">>,
      <<"h","a","r","d"," ","w","o","r","k","e","r">>,
      <<"q","u","i","c","k"," ","l","e","a","r","n","e","r">>,
      <<"d","e","t","a","i","l"," ","o","r","i","e","n","t","e","d">>,
      <<"s","e","l","f"," ","m","o","t","i","v","a","t","e","d">>,
      <<"g","o","-","g","e","t","t","e","r">>,
      <<"r","e","s","u","l","t","s"," ","d","r","i","v","e","n">>,
      <<"p","a","s","s","i","o","n","a","t","e">> }

SkillNameChars == Letters \cup Digits \cup {" ", ".", "-", "+", "#", "&", "/"}

ValidSkillName(v) ==
    /\ Len(v) >= NameMinLen
    /\ Len(v) <= NameMaxLen
    /\ LowerStr(v) \notin BannedGeneric
    /\ \A i \in 1..Len(v) : v[i] \in SkillNameChars

\* Mutant: a Skill needs no example.
ValidSkillNoEvidence(s) ==
    /\ ValidSkillName(s.name)
    /\ \A i \in 1..Len(s.examples) : ValidAchievement(s.examples[i])
    /\ IsYM(s.last_used)

ValidSkill(s) ==
    /\ ValidSkillName(s.name)
    /\ Len(s.examples) >= ExamplesMinLen
    /\ \A i \in 1..Len(s.examples) : ValidAchievement(s.examples[i])
    /\ IsYM(s.last_used)

DatesOrdered(start_date, end_date) ==
    IF end_date # None /\ end_date # <<>> /\ end_date # PresentStr
    THEN ~StrLess(Replace(end_date, "/", "-"), Replace(start_date, "/", "-"))
    ELSE TRUE

ValidJob(j) ==
    /\ IsYM(j.start_date) \/ IsMY(j.start_date)
    /\ j.end_date = None \/ IsYM(j.end_date) \/ IsMY(j.end_date) \/ j.end_date = PresentStr
    /\ DatesOrdered(j.start_date, j.end_date)

ValidContactInfo(c) ==
    /\ HasChar(c.email, "@")
    /\ HasChar(c.email, ".")
    /\ ~HasSub(c.phone, <<"5","5","5","-","5","5","5">>)
    /\ ~HasSub(c.phone, <<"X","X","X">>)

\* CareerData built from a parsed dictionary d: every field is validated.
ValidCareerData(d) ==
    /\ ValidContactInfo(d.contact_info)
    /\ \A i \in 1..Len(d.jobs) : ValidJob(d.jobs[i])
    /\ \A i \in 1..Len(d.skills) : ValidSkill(d.skills[i])

(***************************************************************************)
(* Sample data: config.DEFAULT_CONTACT and the record of the end-to-end    *)
(* scenario (one Job at Acme Corp, one Skill SQL with one Achievement).    *)
(***************************************************************************)
DefaultContact ==
    [name |-> "M. Watson Mulkey",
     email |-> <<"w","a","t","s","o","n","m","u","l","k","e","y","@","g","m","a","i","l",".","c","o","m">>,
     phone |-> <<"4","3","4","-","8","0","8","-","2","4","9","3">>,
     linkedin |-> "linkedin.com/in/watsonmulkey",
     location |-> "Denver, Colorado"]

TestContact ==
    [name |-> "Test User",
     email |-> <<"t","e","s","t","@","e","x","a","m","p","l","e",".","c","o","m">>,
     phone |-> <<"1","2","3","-","4","5","6","-","7","8","9","0">>,
     linkedin |-> NoneStr,
     location |-> NoneStr]

AcmeJob ==
    [company |-> "Acme Corp", title |-> "Test PM",
     start_date |-> <<"2","0","2","3","-","0","1">>, end_date |-> <<"2","0","2","4","-","0","6">>]

SqlAchievement ==
    [description |-> <<"C","u","t"," ","l","o","a","d"," ","t","i","m","e"," ","b","y"," ","4","0"," ","p","e","r","c","e","n","t">>,
     company |-> <<"A","c","m","e"," ","C","o","r","p">>, timeframe |-> <<"2","0","2","3","-","0","6">>, result |-> None]

SqlSkill ==
    [name |-> <<"S","Q","L">>, category |-> "technical", proficiency |-> "intermediate",
     examples |-> <<SqlAchievement>>, last_used |-> <<"2","0","2","3","-","0","6">>]

BadEmail == <<"n","o","-","a","t","-","s","i","g","n">>

\* The keyword arguments a caller passes to the CareerData constructor.
Templates ==
    { [version |-> "1.0", contact_info |-> TestContact, jobs |-> <<AcmeJob>>,
       skills |-> <<SqlSkill>>, skipped_skills |-> <<>>] }

(***************************************************************************)
(* In-memory records and their JSON form.  A datetime t is written as the  *)
(* ISO string [iso |-> t] and parsed back by the datetime field.           *)
(***************************************************************************)
IsoFormat(t) == [iso |-> t]

FromIso(s) == s.iso

\* CareerData.__init__ with keyword arguments kw at time now.
NewCareerData(kw, now) ==
    [version |-> kw.version,
     last_updated |-> now,
     contact_info |-> kw.contact_info,
     jobs |-> kw.jobs,
     skills |-> kw.skills,
     skipped_skills |-> kw.skipped_skills]

\* json.loads(data.model_dump_json())
ModelDump(r) ==
    [version |-> r.version,
     last_updated |-> IsoFormat(r.last_updated),
     contact_info |-> r.contact_info,
     jobs |-> r.jobs,
     skills |-> r.skills,
     skipped_skills |-> r.skipped_skills]

\* Mutant: the jobs of the dictionary are not read.
CareerDataFromDictNoJobs(d) ==
    [version |-> d.version,
     last_updated |-> FromIso(d.last_updated),
     contact_info |-> d.contact_info,
     jobs |-> <<>>,
     skills |-> d.skills,
     skipped_skills |-> d.skipped_skills]

\* CareerData built from the dictionary d read from a file.
CareerDataFromDict(d) ==
    [version |-> d.version,
     last_updated |-> FromIso(d.last_updated),
     contact_info |-> d.contact_info,
     jobs |-> d.jobs,
     skills |-> d.skills,
     skipped_skills |-> d.skipped_skills]

\* Mutant: the default contact info has an email the schema rejects.
EmptyCareerDataBadContact(now) ==
    [version |-> "1.0",
     last_updated |-> now,
     contact_info |-> [DefaultContact EXCEPT !.email = BadEmail],
     jobs |-> <<>>,
     skills |-> <<>>,
     skipped_skills |-> <<>>]

\* The record of _create_empty_career_data.
EmptyCareerData(now) ==
    [version |-> "1.0",
     last_updated |-> now,
     contact_info |-> DefaultContact,
     jobs |-> <<>>,
     skills |-> <<>>,
     skipped_skills |-> <<>>]

(***************************************************************************)
(* Files.  kind is "json" for a complete JSON text of doc, "partial" for a *)
(* file a writer has opened and not finished, "garbage" for text that is   *)
(* not JSON.                                                               *)
(***************************************************************************)
Absent == [exists |-> FALSE, kind |-> "none", doc |-> NoDoc, mtime |-> 0]

MkFile(kind, doc, mtime) == [exists |-> TRUE, kind |-> kind, doc |-> doc, mtime |-> mtime]

PartialFile(mtime) == MkFile("partial", NoDoc, mtime)

\* The value json.load returns for the text "[]": JSON, and not an object.
JsonList == [json |-> "[]"]

\* json.load returned a dict.
IsObject(doc) == "contact_info" \in DOMAIN doc

\* What an external editor can leave in the primary file f: the record with
\* its name replaced, the record with an email that is not an email, a JSON
\* text that is not an object, and text that is not JSON.
ExternalContents(f) ==
    (IF f.kind = "json" /\ IsObject(f.doc)
     THEN { [kind |-> "json",
             doc |-> [f.doc EXCEPT !.contact_info.name =
                         IF @ = "Modified" THEN "Test User" ELSE "Modified"]],
            [kind |-> "json",
             doc |-> [f.doc EXCEPT !.contact_info.email = BadEmail]] }
     ELSE {})
    \cup { [kind |-> "json", doc |-> JsonList], [kind |-> "garbage", doc |-> NoDoc] }

Unalloc == [version |-> "<unallocated>"]

NoContent == [exists |-> FALSE, kind |-> "unknown", doc |-> NoDoc]

(***************************************************************************)
(* State.                                                                  *)
(***************************************************************************)
VARIABLES
    primary,          \* the file at file_path
    backup,           \* the file at file_path.with_suffix('.json.bak')
    temp,             \* the file at file_path.with_suffix('.tmp')
    cache,            \* self._cache: an object id or NoObj
    cache_ts,         \* self._cache_timestamp: a time or NoTs
    backup_enabled,   \* self.backup_enabled
    cache_enabled,    \* self.cache_enabled
    heap,             \* the CareerData objects of the process, by id
    held,             \* the record the caller works on: an object id or NoObj
    clock,            \* datetime.now() and the file system's time
    op,               \* the public call in progress: "idle", "load", "save"
    pc,               \* the step the call is at
    data,             \* save()'s argument: an object id
    data_dict,        \* save()'s local data_dict
    err,              \* the exception being handled in save()
    ret,              \* how the call that has just finished ended
    pre,              \* the files when the call began
    hist,             \* what links a call to the calls before it
    used,             \* the number of events so far (see MaxEvents)
    edited,           \* something other than the engine has written or deleted the primary file
    job,              \* the dates a caller passes to Job(...) and what the constructor did
    skill,            \* the values a caller passes to Skill(...) and what the constructor did
    th                \* the calls of two threads that use the engine at once

vars == <<primary, backup, temp, cache, cache_ts, backup_enabled, cache_enabled,
          heap, held, clock, op, pc, data, data_dict, err, ret, pre, hist, used, edited,
          job, skill, th>>

\* The constructions of sub-entities, which the engine takes no part in, and
\* the threads of the specification of interleaved calls.
aside == <<job, skill, th>>

files == <<primary, backup, temp>>
config == <<backup_enabled, cache_enabled>>
frame == <<op, pc, data, data_dict, err>>

Objs == 1..MaxObjs

\* restore: what the handler says of _restore_from_backup in its message
NoErr == [type |-> "none", step |-> "none", restore |-> "none"]

\* stamp: the last_updated the argument of save() had when the call began
NoPre == [primary |-> Absent, backup |-> Absent, stamp |-> NoTs]

\* ret describes the call that has just finished and is NoRet in every other
\* state.  Its last six fields say what preceded the call (see hist).
NoRet ==
    [op |-> "none", outcome |-> "none", obj |-> NoObj, from_cache |-> FALSE,
     step |-> "none", restore |-> "none", first_run |-> FALSE,
     prev_loaded |-> NoObj, saved |-> NoObj, committed |-> NoContent,
     after_ext |-> FALSE, after_ext_newer |-> FALSE, first_doc |-> NoDoc,
     after_invalidate |-> FALSE, rejected |-> NoObj]

\* hist links a call to the calls before it:
\*   committed  the content the last successful save() put in the primary
\*              file, while nothing else has written the primary file
\*   loaded     the record the last load() returned, while no save(),
\*              invalidate_cache() or external change has happened
\*   saved      the argument of the last successful save(), while the caller
\*              has not changed it and the file was not changed
\*   ext        the last external write changed the mtime of the primary file
\*              while a record was cached
\*   ext_newer  ... and made it greater than the cached timestamp
\*   first_doc  what the first-run path of the last load() persisted, while
\*              the caller has not changed the record it returned
\*   cold       invalidate_cache() was called and no load() or save() since
\*   rejected   the argument of the last save() the caller made, which raised,
\*              while no load() and no external change has happened
NoHist ==
    [committed |-> NoContent, loaded |-> NoObj, saved |-> NoObj,
     ext |-> FALSE, ext_newer |-> FALSE, first_doc |-> NoDoc, cold |-> FALSE,
     rejected |-> NoObj]

\* The engine after __init__, with no file on disk.
EngineInit ==
    /\ primary = Absent
    /\ backup = Absent
    /\ temp = Absent
    /\ cache = NoObj
    /\ cache_ts = NoTs
    /\ backup_enabled \in BOOLEAN
    /\ cache_enabled \in BOOLEAN
    /\ heap = [o \in Objs |-> Unalloc]
    /\ held = NoObj
    /\ clock = 1
    /\ op = "idle"
    /\ pc = "idle"
    /\ data = NoObj
    /\ data_dict = NoDoc
    /\ err = NoErr
    /\ ret = NoRet
    /\ pre = NoPre
    /\ hist = NoHist
    /\ used = 0
    /\ edited = FALSE

NoJob == [start_date |-> None, end_date |-> None, result |-> "none"]

NoSkill == [name |-> <<>>, examples |-> <<>>, last_used |-> <<>>, result |-> "none"]

Threads == {1, 2}

\* A thread that has not called the engine: call is the operation it calls,
\* pc the step it is at, data_dict and err the locals of save(), result how
\* the call ended and obj the record load() returned.
IdleThread ==
    [call |-> "none", pc |-> "idle", data_dict |-> NoDoc, err |-> NoErr,
     result |-> "none", obj |-> NoObj]

NoThreads == [t \in Threads |-> IdleThread]

Init == EngineInit /\ job = NoJob /\ skill = NoSkill /\ th = NoThreads

Idle == op = "idle"

(***************************************************************************)
(* The heap.  An object lives while the caller, the cache, the call in     *)
(* progress or the history refers to it; the slot of a dead object is      *)
(* reused.                                                                 *)
(***************************************************************************)
Roots ==
    {held, cache, data, hist.loaded, hist.saved, hist.rejected,
     ret.obj, ret.prev_loaded, ret.saved, ret.rejected} \ {NoObj}

FreeObjs == Objs \ Roots

NewObj == CHOOSE o \in FreeObjs : \A p \in FreeObjs : o <= p

\* The heap becomes h, without the objects nothing refers to any more.
Collect(h) == heap' = [o \in Objs |-> IF o \in Roots' THEN h[o] ELSE Unalloc]

(***************************************************************************)
(* The cache.                                                              *)
(***************************************************************************)
\* Mutant: a file as old as the cached timestamp invalidates the cache.
IsCacheValidStrict ==
    /\ cache # NoObj
    /\ cache_ts # NoTs
    /\ cache_ts # 0
    /\ primary.exists
    /\ primary.mtime < cache_ts

\* _is_cache_valid: "not self._cache_timestamp" holds for None and for 0.0.
IsCacheValid ==
    /\ cache # NoObj
    /\ cache_ts # NoTs
    /\ cache_ts # 0
    /\ primary.exists
    /\ primary.mtime <= cache_ts

\* load(): if self.cache_enabled and self._cache and self._is_cache_valid()
CacheServes == cache_enabled /\ cache # NoObj /\ IsCacheValid

\* The timestamp _update_cache records.
CacheStamp == IF primary.exists THEN primary.mtime ELSE clock

(***************************************************************************)
(* How a call ends.                                                        *)
(***************************************************************************)
\* The exception the caller sees: the two typed errors the handlers raise,
\* or the OSError of a statement that no handler encloses.
ErrorName(e) ==
    IF e.type = "validation" THEN "CareerDataValidationError"
    ELSE IF e.type = "os" THEN "OSError"
    ELSE "CareerDataFileError"

Content(f) == [exists |-> f.exists, kind |-> f.kind, doc |-> f.doc]

ToIdle ==
    /\ op' = "idle"
    /\ pc' = "idle"
    /\ data' = NoObj
    /\ data_dict' = NoDoc
    /\ err' = NoErr

\* load() returns object o; hit: it came from the cache; first: it was built
\* and saved by the first-run path.
LoadReturns(o, hit, first) ==
    /\ ret' = [op |-> "load", outcome |-> "ok", obj |-> o, from_cache |-> hit,
               step |-> "none", restore |-> "none", first_run |-> first,
               prev_loaded |-> hist.loaded, saved |-> hist.saved, committed |-> NoContent,
               after_ext |-> hist.ext, after_ext_newer |-> hist.ext_newer,
               first_doc |-> hist.first_doc, after_invalidate |-> hist.cold,
               rejected |-> hist.rejected]
    /\ hist' = IF first
               THEN [NoHist EXCEPT !.committed = Content(primary'), !.loaded = o,
                                   !.first_doc = primary'.doc]
               ELSE [hist EXCEPT !.loaded = o, !.saved = NoObj, !.ext = FALSE,
                                 !.ext_newer = FALSE, !.first_doc = NoDoc,
                                 !.cold = FALSE, !.rejected = NoObj]
    /\ held' = o

\* load() raises e.
LoadRaises(e, first) ==
    /\ ret' = [op |-> "load", outcome |-> ErrorName(e), obj |-> NoObj, from_cache |-> FALSE,
               step |-> e.step, restore |-> e.restore, first_run |-> first,
               prev_loaded |-> hist.loaded, saved |-> hist.saved, committed |-> NoContent,
               after_ext |-> hist.ext, after_ext_newer |-> hist.ext_newer,
               first_doc |-> hist.first_doc, after_invalidate |-> hist.cold,
               rejected |-> hist.rejected]
    /\ hist' = IF first THEN NoHist
               ELSE [hist EXCEPT !.loaded = NoObj, !.saved = NoObj, !.ext = FALSE,
                                 !.ext_newer = FALSE, !.first_doc = NoDoc,
                                 !.cold = FALSE, !.rejected = NoObj]
    /\ UNCHANGED held

\* save() returns True.
SaveReturns ==
    /\ ret' = [NoRet EXCEPT !.op = "save", !.outcome = "ok", !.obj = data]
    /\ hist' = [NoHist EXCEPT !.committed = Content(primary'), !.saved = data]
    /\ UNCHANGED held

\* save() raises e.
SaveRaises(e) ==
    /\ ret' = [NoRet EXCEPT !.op = "save", !.outcome = ErrorName(e), !.obj = data,
                            !.step = e.step,
                            !.restore = e.restore, !.committed = hist.committed]
    /\ hist' = [NoHist EXCEPT !.rejected = data]
    /\ UNCHANGED held

\* The end of save(), called by the caller or by load()'s first-run path.
EndReturns == IF op = "load" THEN LoadReturns(data, FALSE, TRUE) ELSE SaveReturns

EndRaises(e) == IF op = "load" THEN LoadRaises(e, TRUE) ELSE SaveRaises(e)

(***************************************************************************)
(* The caller: it constructs a record, assigns fields of the record it     *)
(* works on (the models do not validate assignments) and calls the engine. *)
(***************************************************************************)
Construct(kw) ==
    /\ used < MaxEvents
    /\ used' = used + 1
    /\ Idle
    /\ FreeObjs # {}
    /\ ValidCareerData(kw)
    /\ held' = NewObj
    /\ ret' = NoRet
    /\ pre' = NoPre
    /\ UNCHANGED <<files, cache, cache_ts, config, aside, edited, clock, frame, hist>>
    /\ Collect([heap EXCEPT ![NewObj] = NewCareerData(kw, clock)])

\* The caller changes the record it works on to new; the engine is not involved.
Assign(new) ==
    /\ used < MaxEvents
    /\ used' = used + 1
    /\ Idle
    /\ held # NoObj
    /\ new # heap[held]
    /\ hist' = [hist EXCEPT
                  !.saved = IF hist.saved = held THEN NoObj ELSE hist.saved,
                  !.first_doc = IF hist.loaded = held THEN NoDoc ELSE hist.first_doc]
    /\ ret' = NoRet
    /\ pre' = NoPre
    /\ UNCHANGED <<files, cache, cache_ts, config, aside, edited, held, clock, frame>>
    /\ Collect([heap EXCEPT ![held] = new])

\* data.contact_info.name = "Modified"
MutateName == held # NoObj /\ Assign([heap[held] EXCEPT !.contact_info.name = "Modified"])

\* data.contact_info.email = "no-at-sign"
MutateEmail == held # NoObj /\ Assign([heap[held] EXCEPT !.contact_info.email = BadEmail])

(***************************************************************************)
(* The environment: time passes; an editor or the user writes or deletes   *)
(* the primary file while no call is in progress.                          *)
(***************************************************************************)
Tick ==
    /\ used < MaxEvents
    /\ used' = used + 1
    /\ Idle
    /\ clock' = clock + 1
    /\ ret' = NoRet
    /\ pre' = NoPre
    /\ UNCHANGED <<files, cache, cache_ts, config, aside, edited, held, frame, hist>>
    /\ Collect(heap)

\* The modification times an external writer leaves on the primary file: the
\* epoch (st_mtime 0.0: a file restored without its times), the time the
\* file had (a tool that preserves it) and the present.
ExternalTimes == {0, primary.mtime, clock}

\* The primary file gets content c and modification time m.
ExternalWrite(c, m) ==
    /\ used < MaxEvents
    /\ used' = used + 1
    /\ edited' = TRUE
    /\ Idle
    /\ primary.exists
    /\ primary' = MkFile(c.kind, c.doc, m)
    /\ hist' = [NoHist EXCEPT
                  !.ext = cache # NoObj /\ m # primary.mtime,
                  !.ext_newer = cache # NoObj /\ cache_ts # NoTs /\ m > cache_ts,
                  !.cold = hist.cold]
    /\ ret' = NoRet
    /\ pre' = NoPre
    /\ UNCHANGED <<backup, temp, cache, cache_ts, config, aside, held, clock, frame>>
    /\ Collect(heap)

ExternalDelete ==
    /\ used < MaxEvents
    /\ used' = used + 1
    /\ edited' = TRUE
    /\ Idle
    /\ primary.exists
    /\ primary' = Absent
    /\ hist' = [NoHist EXCEPT !.cold = hist.cold]
    /\ ret' = NoRet
    /\ pre' = NoPre
    /\ UNCHANGED <<backup, temp, cache, cache_ts, config, aside, held, clock, frame>>
    /\ Collect(heap)

(***************************************************************************)
(* invalidate_cache()                                                      *)
(***************************************************************************)
\* Mutant: the cached record and its timestamp are kept.
InvalidateCacheKeeps ==
    /\ used < MaxEvents
    /\ used' = used + 1
    /\ Idle
    /\ UNCHANGED <<cache, cache_ts>>
    /\ ret' = [NoRet EXCEPT !.op = "invalidate_cache", !.outcome = "ok"]
    /\ hist' = [hist EXCEPT !.loaded = NoObj, !.cold = TRUE]
    /\ pre' = [primary |-> primary, backup |-> backup, stamp |-> NoTs]
    /\ UNCHANGED <<files, config, aside, edited, held, clock, frame>>
    /\ Collect(heap)

InvalidateCache ==
    /\ used < MaxEvents
    /\ used' = used + 1
    /\ Idle
    /\ cache' = NoObj
    /\ cache_ts' = NoTs
    /\ ret' = [NoRet EXCEPT !.op = "invalidate_cache", !.outcome = "ok"]
    /\ hist' = [hist EXCEPT !.loaded = NoObj, !.cold = TRUE]
    /\ pre' = [primary |-> primary, backup |-> backup, stamp |-> NoTs]
    /\ UNCHANGED <<files, config, aside, edited, held, clock, frame>>
    /\ Collect(heap)

(***************************************************************************)
(* get_backup_path() and has_backup()                                      *)
(***************************************************************************)
\* self.file_path.with_suffix('.json.bak') is computed; no file is touched.
GetBackupPath ==
    /\ used + 1 < MaxEvents
    /\ used' = used + 2
    /\ Idle
    /\ ret' = [NoRet EXCEPT !.op = "get_backup_path", !.outcome = "ok"]
    /\ pre' = [primary |-> primary, backup |-> backup, stamp |-> NoTs]
    /\ UNCHANGED <<files, cache, cache_ts, config, aside, edited, held, clock, frame, hist>>
    /\ Collect(heap)

\* self.get_backup_path().exists()
HasBackup ==
    /\ used + 1 < MaxEvents
    /\ used' = used + 2
    /\ Idle
    /\ ret' = [NoRet EXCEPT !.op = "has_backup",
                            !.outcome = IF backup.exists THEN "True" ELSE "False"]
    /\ pre' = [primary |-> primary, backup |-> backup, stamp |-> NoTs]
    /\ UNCHANGED <<files, cache, cache_ts, config, aside, edited, held, clock, frame, hist>>
    /\ Collect(heap)

(***************************************************************************)
(* load()                                                                  *)
(***************************************************************************)
\* The cache check or the test for a first run fails: exists() or stat() of
\* the primary file raises (no permission on the directory, the file removed
\* between exists() and stat()).  The statements are outside load()'s try.
LoadStatFault ==
    /\ used + 1 < MaxEvents
    /\ used' = used + 2
    /\ Idle
    /\ pre' = [primary |-> primary, backup |-> backup, stamp |-> NoTs]
    /\ UNCHANGED <<files, cache, cache_ts, config, aside, edited, clock, frame>>
    /\ LoadRaises([type |-> "os", step |-> "stat", restore |-> "none"], FALSE)
    /\ Collect(heap)

\* The cached record is returned.
LoadCacheHit ==
    /\ used < MaxEvents
    /\ used' = used + 1
    /\ Idle
    /\ CacheServes
    /\ pre' = [primary |-> primary, backup |-> backup, stamp |-> NoTs]
    /\ UNCHANGED <<files, cache, cache_ts, config, aside, edited, clock, frame>>
    /\ LoadReturns(cache, TRUE, FALSE)
    /\ Collect(heap)

\* No primary file: _create_empty_career_data builds the record and calls save().
LoadFirstRun ==
    /\ used < MaxEvents
    /\ used' = used + 1
    /\ Idle
    /\ ~CacheServes
    /\ ~primary.exists
    /\ FreeObjs # {}
    /\ op' = "load"
    /\ pc' = "stamp"
    /\ data' = NewObj
    /\ pre' = [primary |-> primary, backup |-> backup, stamp |-> NoTs]
    /\ ret' = NoRet
    /\ UNCHANGED <<files, cache, cache_ts, config, aside, edited, held, clock, data_dict, err, hist>>
    /\ Collect([heap EXCEPT ![NewObj] = EmptyCareerData(clock)])

\* The primary file exists and the cache does not serve the call.
LoadBegin ==
    /\ used < MaxEvents
    /\ used' = used + 1
    /\ Idle
    /\ ~CacheServes
    /\ primary.exists
    /\ FreeObjs # {}
    /\ op' = "load"
    /\ pc' = "read"
    /\ pre' = [primary |-> primary, backup |-> backup, stamp |-> NoTs]
    /\ ret' = NoRet
    /\ UNCHANGED <<files, cache, cache_ts, config, aside, edited, held, clock, data, data_dict, err, hist>>
    /\ Collect(heap)

\* open, json.load and CareerData on the content of the primary file, then
\* _update_cache.
LoadRead ==
    /\ op = "load" /\ pc = "read"
    /\ UNCHANGED <<files, config, aside, edited, used, clock, pre>>
    /\ ToIdle
    /\ IF primary.kind # "json"
       THEN /\ LoadRaises([type |-> "file", step |-> "json", restore |-> "none"], FALSE)
            /\ UNCHANGED <<cache, cache_ts>>
            /\ Collect(heap)
       ELSE IF ~IsObject(primary.doc)
       THEN \* CareerData(**data) raises TypeError: except Exception
            /\ LoadRaises([type |-> "file", step |-> "type", restore |-> "none"], FALSE)
            /\ UNCHANGED <<cache, cache_ts>>
            /\ Collect(heap)
       ELSE IF ~ValidCareerData(primary.doc)
       THEN /\ LoadRaises([type |-> "validation", step |-> "schema", restore |-> "none"], FALSE)
            /\ UNCHANGED <<cache, cache_ts>>
            /\ Collect(heap)
       ELSE /\ IF cache_enabled
               THEN /\ cache' = NewObj
                    /\ cache_ts' = CacheStamp
               ELSE UNCHANGED <<cache, cache_ts>>
            /\ LoadReturns(NewObj, FALSE, FALSE)
            /\ Collect([heap EXCEPT ![NewObj] = CareerDataFromDict(primary.doc)])

\* The primary file cannot be opened or read.
LoadReadFault ==
    /\ used < MaxEvents
    /\ used' = used + 1
    /\ op = "load" /\ pc = "read"
    /\ UNCHANGED <<files, cache, cache_ts, config, aside, edited, clock, pre>>
    /\ ToIdle
    /\ LoadRaises([type |-> "file", step |-> "read", restore |-> "none"], FALSE)
    /\ Collect(heap)

(***************************************************************************)
(* save(data), one action per step.  A step that touches the file system   *)
(* either succeeds or fails with an I/O error (the Fault actions).          *)
(***************************************************************************)
SaveCall ==
    /\ used < MaxEvents
    /\ used' = used + 1
    /\ Idle
    /\ held # NoObj
    /\ op' = "save"
    /\ pc' = "stamp"
    /\ data' = held
    /\ pre' = [primary |-> primary, backup |-> backup, stamp |-> heap[held].last_updated]
    /\ ret' = NoRet
    /\ UNCHANGED <<files, cache, cache_ts, config, aside, edited, held, clock, data_dict, err, hist>>
    /\ Collect(heap)

\* Mutant: the record keeps the last_updated of the caller.
SaveStampKeeps ==
    /\ pc = "stamp"
    /\ data_dict' = ModelDump(heap[data])
    /\ pc' = "backup"
    /\ UNCHANGED <<files, cache, cache_ts, config, aside, edited, used, heap, held, clock, op, data,
                   err, ret, pre, hist>>

\* 1. data.last_updated = datetime.now(); data_dict = json.loads(data.model_dump_json())
SaveStamp ==
    /\ pc = "stamp"
    /\ data_dict' = ModelDump([heap[data] EXCEPT !.last_updated = clock])
    /\ pc' = "backup"
    /\ UNCHANGED <<files, cache, cache_ts, config, aside, edited, used, held, clock, op, data, err, ret, pre, hist>>
    /\ Collect([heap EXCEPT ![data].last_updated = clock])

\* model_dump_json raises (a value it cannot serialise, no memory).
SaveStampFault ==
    /\ used < MaxEvents
    /\ used' = used + 1
    /\ pc = "stamp"
    /\ err' = [type |-> "file", step |-> "dump", restore |-> "none"]
    /\ pc' = "recover"
    /\ UNCHANGED <<files, cache, cache_ts, config, aside, edited, held, clock, op, data, data_dict, ret, pre, hist>>
    /\ Collect([heap EXCEPT ![data].last_updated = clock])

\* The backup file _create_backup leaves: shutil.copy2 copies content and mtime.
BackupCopy(f) == f

\* Mutant: the backup step does not copy the primary file.
SaveBackupSkipped ==
    /\ pc = "backup"
    /\ pc' = "write"
    /\ UNCHANGED <<files, cache, cache_ts, config, aside, edited, used, heap, held, clock, op, data,
                   data_dict, err, ret, pre, hist>>

\* Mutant: the primary file is copied also when backups are disabled.
SaveBackupAlways ==
    /\ pc = "backup"
    /\ backup' = IF primary.exists THEN BackupCopy(primary) ELSE backup
    /\ pc' = "write"
    /\ UNCHANGED <<primary, temp, cache, cache_ts, config, aside, edited, used, heap, held, clock, op, data,
                   data_dict, err, ret, pre, hist>>

\* 2. if self.backup_enabled and self.file_path.exists(): self._create_backup()
SaveBackup ==
    /\ pc = "backup"
    /\ backup' = IF backup_enabled /\ primary.exists THEN BackupCopy(primary) ELSE backup
    /\ pc' = "write"
    /\ UNCHANGED <<primary, temp, cache, cache_ts, config, aside, edited, used, heap, held, clock, op, data,
                   data_dict, err, ret, pre, hist>>

\* The copy fails: before the backup file is opened, or after it was truncated.
SaveBackupFault ==
    /\ used < MaxEvents
    /\ used' = used + 1
    /\ pc = "backup"
    /\ backup_enabled /\ primary.exists
    /\ backup' \in {backup, PartialFile(clock)}
    /\ err' = [type |-> "file", step |-> "backup", restore |-> "none"]
    /\ pc' = "recover"
    /\ UNCHANGED <<primary, temp, cache, cache_ts, config, aside, edited, heap, held, clock, op, data,
                   data_dict, ret, pre, hist>>

\* 3. json.dump(data_dict, f) into the temp file
SaveWriteTemp ==
    /\ pc = "write"
    /\ temp' = MkFile("json", data_dict, clock)
    /\ pc' = "verify"
    /\ UNCHANGED <<primary, backup, cache, cache_ts, config, aside, edited, used, heap, held, clock, op, data,
                   data_dict, err, ret, pre, hist>>

\* The write fails: before the temp file is created, or partway through.
SaveWriteTempFault ==
    /\ used < MaxEvents
    /\ used' = used + 1
    /\ pc = "write"
    /\ temp' \in {temp, PartialFile(clock)}
    /\ err' = [type |-> "file", step |-> "write", restore |-> "none"]
    /\ pc' = "cleanup"
    /\ UNCHANGED <<primary, backup, cache, cache_ts, config, aside, edited, heap, held, clock, op, data,
                   data_dict, ret, pre, hist>>

\* Mutant: the temp file is not validated.
SaveVerifyAccepts ==
    /\ pc = "verify"
    /\ pc' = "rename"
    /\ UNCHANGED <<files, cache, cache_ts, config, aside, edited, used, heap, held, clock, op, data,
                   data_dict, err, ret, pre, hist>>

\* 4. test_data = json.load(f); CareerData built from test_data
SaveVerify ==
    /\ pc = "verify"
    /\ IF temp.kind = "json" /\ IsObject(temp.doc) /\ ValidCareerData(temp.doc)
       THEN /\ pc' = "rename"
            /\ UNCHANGED err
       ELSE /\ err' = [type |-> IF temp.kind = "json" THEN "validation" ELSE "file",
                       step |-> "verify", restore |-> "none"]
            /\ pc' = "cleanup"
    /\ UNCHANGED <<files, cache, cache_ts, config, aside, edited, used, heap, held, clock, op, data,
                   data_dict, ret, pre, hist>>

\* 5. shutil.move(temp_path, file_path): the rename replaces the primary file.
SaveRename ==
    /\ pc = "rename"
    /\ primary' = temp
    /\ temp' = Absent
    /\ pc' = "update_cache"
    /\ UNCHANGED <<backup, cache, cache_ts, config, aside, edited, used, heap, held, clock, op, data,
                   data_dict, err, ret, pre, hist>>

SaveRenameFault ==
    /\ used < MaxEvents
    /\ used' = used + 1
    /\ pc = "rename"
    /\ err' = [type |-> "file", step |-> "rename", restore |-> "none"]
    /\ pc' = "cleanup"
    /\ UNCHANGED <<files, cache, cache_ts, config, aside, edited, heap, held, clock, op, data,
                   data_dict, ret, pre, hist>>

\* 6. if self.cache_enabled: self._update_cache(data); return True
SaveUpdateCache ==
    /\ pc = "update_cache"
    /\ IF cache_enabled
       THEN /\ cache' = data
            /\ cache_ts' = CacheStamp
       ELSE UNCHANGED <<cache, cache_ts>>
    /\ UNCHANGED <<files, config, aside, edited, used, clock, pre>>
    /\ ToIdle
    /\ EndReturns
    /\ Collect(heap)

\* _update_cache has assigned self._cache when stat() of the primary file fails.
SaveUpdateCacheFault ==
    /\ used < MaxEvents
    /\ used' = used + 1
    /\ pc = "update_cache"
    /\ cache_enabled
    /\ cache' = data
    /\ err' = [type |-> "file", step |-> "update_cache", restore |-> "none"]
    /\ pc' = "cleanup"
    /\ UNCHANGED <<files, cache_ts, config, aside, edited, held, clock, op, data,
                   data_dict, ret, pre, hist>>
    /\ Collect(heap)

\* Mutant: the handler does not unlink the temp file.
SaveCleanupKeepsTemp ==
    /\ pc = "cleanup"
    /\ pc' = "recover"
    /\ UNCHANGED <<files, cache, cache_ts, config, aside, edited, used, heap, held, clock, op, data,
                   data_dict, err, ret, pre, hist>>

\* except Exception: if temp_path.exists(): temp_path.unlink(); raise e
SaveCleanup ==
    /\ pc = "cleanup"
    /\ temp' = Absent
    /\ pc' = "recover"
    /\ UNCHANGED <<primary, backup, cache, cache_ts, config, aside, edited, used, heap, held, clock, op, data,
                   data_dict, err, ret, pre, hist>>

\* The outer handlers: with backups enabled _restore_from_backup runs.  It
\* returns False when there is no backup file; otherwise shutil.copy2 opens
\* the primary file for writing, which truncates it.
SaveRecover ==
    /\ pc = "recover"
    /\ UNCHANGED <<backup, temp, cache, cache_ts, config, aside, edited, used, clock, pre>>
    /\ IF backup_enabled /\ backup.exists
       THEN /\ primary' = PartialFile(clock)
            /\ pc' = "restore"
            /\ UNCHANGED <<heap, held, op, data, data_dict, err, ret, hist>>
       ELSE /\ UNCHANGED primary
            /\ ToIdle
            /\ EndRaises([err EXCEPT !.restore = IF backup_enabled THEN "not restored"
                                                 ELSE "disabled"])
            /\ Collect(heap)

\* Mutant: the restore opens the primary file and copies nothing.
RestoreCopyTruncated(f) == PartialFile(f.mtime)

\* The primary file _restore_from_backup leaves: content and mtime of the backup.
RestoreCopy(f) == f

\* copy2 completes; self.invalidate_cache(); the handler raises.
SaveRestore ==
    /\ pc = "restore"
    /\ primary' = RestoreCopy(backup)
    /\ cache' = NoObj
    /\ cache_ts' = NoTs
    /\ UNCHANGED <<backup, temp, config, aside, edited, used, clock, pre>>
    /\ ToIdle
    /\ EndRaises([err EXCEPT !.restore = "restored"])
    /\ Collect(heap)

\* copy2 fails after it truncated the primary file: except Exception: return
\* False, the cache is kept, and the handler raises.
SaveRestoreFault ==
    /\ used < MaxEvents
    /\ used' = used + 1
    /\ pc = "restore"
    /\ UNCHANGED <<files, cache, cache_ts, config, aside, edited, clock, pre>>
    /\ ToIdle
    /\ EndRaises([err EXCEPT !.restore = "not restored"])
    /\ Collect(heap)

(***************************************************************************)
(* The specification.                                                      *)
(***************************************************************************)
Next ==
    \/ \E kw \in Templates : Construct(kw)
    \/ MutateName
    \/ MutateEmail
    \/ Tick
    \/ \E c \in ExternalContents(primary), m \in ExternalTimes : ExternalWrite(c, m)
    \/ ExternalDelete
    \/ InvalidateCache
    \/ GetBackupPath
    \/ HasBackup
    \/ LoadStatFault
    \/ LoadCacheHit
    \/ LoadFirstRun
    \/ LoadBegin
    \/ LoadRead
    \/ LoadReadFault
    \/ SaveCall
    \/ SaveStamp
    \/ SaveStampFault
    \/ SaveBackup
    \/ SaveBackupFault
    \/ SaveWriteTemp
    \/ SaveWriteTempFault
    \/ SaveVerify
    \/ SaveRename
    \/ SaveRenameFault
    \/ SaveUpdateCache
    \/ SaveUpdateCacheFault
    \/ SaveCleanup
    \/ SaveRecover
    \/ SaveRestore
    \/ SaveRestoreFault

Spec == Init /\ [][Next]_vars

TypeOK ==
    /\ primary.exists \in BOOLEAN
    /\ cache \in 0..MaxObjs
    /\ held \in 0..MaxObjs
    /\ clock \in 1..(MaxEvents + 1)
    /\ op \in {"idle", "load", "save"}

(***************************************************************************)
(* Properties.                                                             *)
(***************************************************************************)
SaveReturned == ret.op = "save" /\ ret.outcome = "ok"

SaveRaised == ret.op = "save" /\ ret.outcome \in {"CareerDataValidationError", "CareerDataFileError"}

LoadReturned == ret.op = "load" /\ ret.outcome = "ok"

\* The steps of save(), whether the caller or load()'s first-run path called it.
InSave == pc \in {"stamp", "backup", "write", "verify", "rename", "update_cache",
                  "cleanup", "recover", "restore"}

\* The content of a file that holds the complete JSON text of doc.
JsonContent(doc) == [exists |-> TRUE, kind |-> "json", doc |-> doc]

\* Records a and b agree on every field but last_updated.
SameFields(a, b) ==
    /\ a.version = b.version
    /\ a.contact_info = b.contact_info
    /\ a.jobs = b.jobs
    /\ a.skills = b.skills
    /\ a.skipped_skills = b.skipped_skills

\* C1: after every save() call that raised, whatever step failed and whether
\* or not an older backup file exists, the primary file has the content it
\* had immediately before the call (and is absent if it was absent).
C1_FailedSaveKeepsPrimary ==
    SaveRaised => Content(primary) = Content(pre.primary)

\* C2: after save() has raised because writing the temp file failed partway
\* through, the primary file has the content it had when the call began.
C2_FailedTempWriteKeepsPrimary ==
    (SaveRaised /\ ret.step = "write") => Content(primary) = Content(pre.primary)

C5_SecondLoadFromCache ==
    (ret.op = "load" /\ cache_enabled /\ ret.prev_loaded # NoObj /\ ret.step # "stat") =>
        /\ ret.outcome = "ok"
        /\ ret.from_cache
        /\ ret.obj = ret.prev_loaded

\* C6: once a record is cached, after an external write that changed the
\* modification time of the primary file the next load() does not return
\* the cached record; what it returns is the content of the file.
C6_ExternalChangeSeen ==
    (ret.op = "load" /\ ret.after_ext) =>
        /\ ~ret.from_cache
        /\ (ret.outcome = "ok" => heap[ret.obj] = CareerDataFromDict(primary.doc))

\* C7: load() with no primary file creates the file and returns a record
\* with no jobs, no skills and the default contact info; it raises only
\* when a file operation fails; a load() that follows returns the content
\* the first one persisted.
C7_FirstRun ==
    /\ (LoadReturned /\ ret.first_run) =>
          /\ ~pre.primary.exists
          /\ Content(primary) = JsonContent(ModelDump(heap[ret.obj]))
          /\ heap[ret.obj].jobs = <<>>
          /\ heap[ret.obj].skills = <<>>
          /\ heap[ret.obj].contact_info = DefaultContact
    /\ (ret.op = "load" /\ ret.first_run /\ ret.outcome # "ok") =>
          /\ ret.outcome = "CareerDataFileError"
          /\ ret.step \in {"dump", "write", "rename", "update_cache"}
    /\ (ret.op = "load" /\ ret.first_doc # NoDoc /\ ret.step \notin {"stat", "read"}) =>
          /\ ret.outcome = "ok"
          /\ ModelDump(heap[ret.obj]) = ret.first_doc

\* The second load after a first run has read the persisted file.
C7_Witness ==
    /\ LoadReturned
    /\ ret.first_doc # NoDoc
    /\ ~ret.from_cache
    /\ ~ret.first_run
    /\ heap[ret.obj].jobs = <<>>

\* C8: after a successful save() made while the primary file existed and
\* backups are enabled, the backup file holds the content the primary file
\* had when the call began, and the primary file holds the saved record.
C8_BackupHoldsPreviousPrimary ==
    (SaveReturned /\ backup_enabled /\ pre.primary.exists) =>
        /\ Content(backup) = Content(pre.primary)
        /\ Content(primary) = JsonContent(ModelDump(heap[ret.obj]))

\* A second successful save has returned: backup and primary differ.
C8_Witness ==
    /\ SaveReturned /\ backup_enabled /\ pre.primary.exists
    /\ pre.primary.kind = "json"
    /\ Content(backup) # Content(primary)

C10_PrimaryOldOrNew ==
    InSave => Content(primary) \in {Content(pre.primary), JsonContent(data_dict)}

\* C11: while only the engine has written the primary file, a primary file
\* that exists between calls holds a JSON document that satisfies the
\* schema.
C11_StoredContentValid ==
    (Idle /\ ~edited /\ primary.exists) =>
        /\ primary.kind = "json"
        /\ IsObject(primary.doc)
        /\ ValidCareerData(primary.doc)

C13_ValidationBeforeBackup ==
    (SaveRaised /\ ret.outcome = "CareerDataValidationError") =>
        Content(backup) = Content(pre.backup)

\* C14: after a successful save(R) the last_updated persisted in the primary
\* file, and the one of R, is the time of that save, whatever last_updated R
\* had when the call began.
C14_EngineStampsLastUpdated ==
    SaveReturned =>
        /\ primary.doc.last_updated = IsoFormat(clock)
        /\ heap[ret.obj].last_updated = clock

\* A record that carried an earlier last_updated was saved.
C14_Witness ==
    /\ SaveReturned
    /\ pre.stamp # NoTs
    /\ pre.stamp # clock
    /\ primary.doc.last_updated = IsoFormat(clock)

\* The parsed content of file f satisfies the Record Schema.
SatisfiesSchema(f) == f.kind = "json" /\ IsObject(f.doc) /\ ValidCareerData(f.doc)

\* C15: a load() that reads an existing primary file raises
\* CareerDataFileError when the file cannot be read or is not JSON, raises
\* CareerDataValidationError for every JSON content that does not satisfy
\* the schema, and returns no record in both cases.
C15_LoadErrorTypes ==
    (ret.op = "load" /\ ~ret.first_run /\ ~ret.from_cache /\ ret.step # "stat") =>
        /\ (ret.step = "read" \/ primary.kind # "json") =>
              ret.outcome = "CareerDataFileError" /\ ret.obj = NoObj
        /\ (ret.step # "read" /\ primary.kind = "json" /\ ~SatisfiesSchema(primary)) =>
              ret.outcome = "CareerDataValidationError" /\ ret.obj = NoObj

\* C16: every load() and save() that fails raises CareerDataFileError or
\* CareerDataValidationError.
C16_OnlyTypedErrors ==
    (ret.op \in {"load", "save"} /\ ret.outcome # "ok") =>
        ret.outcome \in {"CareerDataFileError", "CareerDataValidationError"}

(***************************************************************************)
(* The user messages.  get_manager() falls back to the file                *)
(* ~/.resume_tailor/career_data.json when config.py names none; paths are   *)
(* kept as directory and name.                                              *)
(***************************************************************************)
FilePath == [dir |-> "~/.resume_tailor", name |-> "career_data.json"]

\* self.file_path.with_suffix('.json.bak')
BackupPath == [dir |-> FilePath.dir, name |-> "career_data.json.bak"]

NoPath == [dir |-> "", name |-> ""]

\* The user_message of the error that ended call r: whether it says what
\* failed, the backup path it shows, and the next steps it proposes.  The
\* handlers of save() add the outcome of the restore (r.restore) and nothing
\* else.
UserMessage(r) ==
    IF r.op = "load" /\ ~r.first_run /\ r.step = "json"
    THEN [what |-> "Your career data file has invalid formatting.",
          backup |-> [dir |-> "", name |-> "career_data.json.bak"],
          steps |-> {"restore from backup", "fix manually", "start fresh"}]
    ELSE IF r.op = "load" /\ ~r.first_run /\ r.step = "schema"
    THEN [what |-> "Your career data file has validation errors.",
          backup |-> BackupPath,
          steps |-> {"restore from backup"}]
    ELSE IF r.op = "load" /\ ~r.first_run
    THEN [what |-> "Could not load career data.",
          backup |-> NoPath,
          steps |-> {"check that the file exists and is readable"}]
    ELSE IF r.outcome = "CareerDataValidationError"
    THEN [what |-> "Failed to save career data - validation error.",
          backup |-> NoPath,
          steps |-> {}]
    ELSE [what |-> "Failed to save career data.",
          backup |-> NoPath,
          steps |-> {}]

RaisedTyped ==
    /\ ret.op \in {"load", "save"}
    /\ ret.outcome \in {"CareerDataFileError", "CareerDataValidationError"}

\* C17: the user message of every error load() and save() raise says what
\* failed, shows the path of the backup file when the backup file exists,
\* and proposes a next step.
C17_MessageContents ==
    RaisedTyped =>
        /\ UserMessage(ret).what # ""
        /\ backup.exists => UserMessage(ret).backup = BackupPath
        /\ UserMessage(ret).steps # {}

\* C18: invalidate_cache() leaves no cached record and no cached timestamp
\* and changes no file; the load() that follows does not return a cached
\* record.
C18_InvalidateCache ==
    /\ ret.op = "invalidate_cache" =>
          /\ cache = NoObj
          /\ cache_ts = NoTs
          /\ primary = pre.primary
          /\ backup = pre.backup
          /\ ~temp.exists
    /\ (ret.op = "load" /\ ret.after_invalidate) => ~ret.from_cache

\* With caching enabled, a load() after invalidate_cache() has read the file.
C18_Witness ==
    /\ LoadReturned
    /\ ret.after_invalidate
    /\ cache_enabled
    /\ ~ret.first_run
    /\ ~ret.from_cache

\* C19: a load() that follows a load(), with the file unchanged and no
\* save() in between, returns data equal to the content of the primary file,
\* whatever the caller did to the record the first load() gave it.
C19_CacheNotExposed ==
    (LoadReturned /\ ret.prev_loaded # NoObj) =>
        ModelDump(heap[ret.obj]) = primary.doc

(***************************************************************************)
(* Job(...) on its own: a caller constructs a Job from a start date and an  *)
(* end date in the formats the field patterns accept.                       *)
(***************************************************************************)
DigitSeq == <<"0","1","2","3","4","5","6","7","8","9">>

\* The two and the four digits of a month and of a year.
Month2(m) == <<DigitSeq[(m \div 10) + 1], DigitSeq[(m % 10) + 1]>>

Year4(y) ==
    <<DigitSeq[(y \div 1000) + 1], DigitSeq[((y \div 100) % 10) + 1],
      DigitSeq[((y \div 10) % 10) + 1], DigitSeq[(y % 10) + 1]>>

\* YYYY-MM and MM/YYYY
FormatYM(y, m) == Year4(y) \o <<"-">> \o Month2(m)

FormatMY(y, m) == Month2(m) \o <<"/">> \o Year4(y)

JobYears == 2022..(2021 + MaxYears)

JobStartDates ==
    {FormatYM(y, m) : y \in JobYears, m \in 1..12} \cup {FormatMY(y, m) : y \in JobYears, m \in 1..12}

JobEndDates == JobStartDates \cup {PresentStr, None}

\* The caller is about to call Job(company, title, start_date, end_date).
JobInit ==
    /\ EngineInit
    /\ skill = NoSkill
    /\ th = NoThreads
    /\ \E s \in JobStartDates, e \in JobEndDates :
          job = [start_date |-> s, end_date |-> e, result |-> "none"]

\* Job(...): the field patterns, then validate_dates; pydantic raises
\* ValidationError when either rejects the values.
ConstructJob ==
    /\ job.result = "none"
    /\ job.start_date # None
    /\ job' = [job EXCEPT !.result =
                  IF ValidJob([AcmeJob EXCEPT !.start_date = job.start_date,
                                              !.end_date = job.end_date])
                  THEN "ok" ELSE "ValidationError"]
    /\ UNCHANGED <<files, cache, cache_ts, config, heap, held, clock, frame, ret, pre,
                   hist, used, edited, skill, th>>

JobNext == ConstructJob

SpecJob == JobInit /\ [][JobNext]_vars

\* The value of the digit c, and the number of months from year 0 to the
\* month a date in either format names.
DigitVal(c) == (CHOOSE i \in 1..10 : DigitSeq[i] = c) - 1

Number(s) ==
    IF Len(s) = 2 THEN 10 * DigitVal(s[1]) + DigitVal(s[2])
    ELSE 1000 * DigitVal(s[1]) + 100 * DigitVal(s[2]) + 10 * DigitVal(s[3]) + DigitVal(s[4])

Chrono(d) ==
    IF IsYM(d) THEN 12 * Number(SubSeq(d, 1, 4)) + Number(SubSeq(d, 6, 7))
    ELSE 12 * Number(SubSeq(d, 4, 7)) + Number(SubSeq(d, 1, 2))

\* C20: for start and end dates in either format, Job(...) fails exactly
\* when the end date is chronologically before the start date; with the end
\* date Present (or none) it succeeds for every start date.
C20_JobDateOrdering ==
    job.result # "none" =>
        (job.result = "ValidationError") =
            (/\ job.end_date \notin {None, PresentStr}
             /\ Chrono(job.end_date) < Chrono(job.start_date))

(***************************************************************************)
(* Skill(...) on its own: a caller constructs a Skill from a name, a list   *)
(* of examples and a last_used date.                                        *)
(***************************************************************************)
\* Names: accepted ones, a generic one in mixed case, one that is too short
\* and one with a character the pattern rejects.
SkillNames ==
    { <<"S","Q","L">>,
      <<"C","+","+">>,
      <<"T","e","a","m"," ","P","l","a","y","e","r">>,
      <<"C">>,
      <<"S","Q","L","!">> }

SkillLastUsed == { <<"2","0","2","3","-","0","6">>, <<"0","6","/","2","0","2","3">>, <<"2","0","2","3">> }

\* Achievements: the sound one, one with a description of two words, one with
\* a timeframe that is no month, and one with no company.
SkillAchievements ==
    { SqlAchievement,
      [SqlAchievement EXCEPT !.description = <<"L","e","d"," ","t","e","a","m">>],
      [SqlAchievement EXCEPT !.timeframe = <<"2","0","2","3">>],
      [SqlAchievement EXCEPT !.company = <<>>] }

SkillExamples == UNION {[1..n -> SkillAchievements] : n \in 0..MaxExamples}

\* The caller is about to call Skill(name, category, examples, last_used).
SkillInit ==
    /\ EngineInit
    /\ job = NoJob
    /\ th = NoThreads
    /\ \E n \in SkillNames, x \in SkillExamples, u \in SkillLastUsed :
          skill = [name |-> n, examples |-> x, last_used |-> u, result |-> "none"]

\* Skill(...): pydantic raises ValidationError when a field constraint or
\* validate_skill_name rejects a value, or an example is no Achievement.
ConstructSkill ==
    /\ skill.result = "none"
    /\ skill.last_used # <<>>
    /\ skill' = [skill EXCEPT !.result =
                    IF ValidSkill([SqlSkill EXCEPT !.name = skill.name,
                                                   !.examples = skill.examples,
                                                   !.last_used = skill.last_used])
                    THEN "ok" ELSE "ValidationError"]
    /\ UNCHANGED <<files, cache, cache_ts, config, heap, held, clock, frame, ret, pre,
                   hist, used, edited, job, th>>

SkillNext == ConstructSkill

SpecSkill == SkillInit /\ [][SkillNext]_vars

\* C21: Skill(...) with no example fails validation; Skill(...) with a valid
\* name, a valid last_used and one or more examples that are all valid
\* Achievements succeeds.
C21_NoEmptyEvidenceSkill ==
    skill.result # "none" =>
        /\ Len(skill.examples) = 0 => skill.result = "ValidationError"
        /\ (/\ ValidSkillName(skill.name)
            /\ IsYM(skill.last_used)
            /\ Len(skill.examples) >= 1
            /\ \A i \in 1..Len(skill.examples) : ValidAchievement(skill.examples[i])) =>
              skill.result = "ok"

\* A Skill whose name and last_used are valid was refused for having no example.
C21_Witness ==
    /\ skill.result = "ValidationError"
    /\ Len(skill.examples) = 0
    /\ ValidSkillName(skill.name)
    /\ IsYM(skill.last_used)

\* C22: the load() that follows a save() that raised returns a record equal
\* to the content of the primary file and not the record save() rejected,
\* with backups enabled or disabled, with or without a backup file, and also
\* when the rejected record is the object the cache holds.
C22_LoadAfterFailedSave ==
    (LoadReturned /\ ret.rejected # NoObj) =>
        /\ ret.obj # ret.rejected
        /\ ModelDump(heap[ret.obj]) = primary.doc

\* A step in which the caller calls load() and the cache check does not fail.
LoadStarts ==
    /\ op = "idle"
    /\ op' = "load" \/ ret'.op = "load"
    /\ ret'.step # "stat"

\* The conditions under which the cached record is valid and served.
CacheRule ==
    /\ cache_enabled
    /\ cache # NoObj
    /\ cache_ts # NoTs
    /\ primary.exists
    /\ primary.mtime <= cache_ts

\* The call has returned the cached record and touched no file.
ServedFromCache ==
    /\ op' = "idle"
    /\ ret'.op = "load"
    /\ ret'.outcome = "ok"
    /\ ret'.from_cache
    /\ ret'.obj = cache
    /\ UNCHANGED files

\* C23: load() returns the cached record without reading the file exactly
\* when caching is enabled, a record and a timestamp are cached, the primary
\* file exists and its modification time is less than or equal to the cached
\* timestamp; otherwise it goes on to read the primary file, or to the
\* first-run path when there is no primary file.
C23_CacheValidityRule ==
    [][LoadStarts =>
          /\ ServedFromCache <=> CacheRule
          /\ ~CacheRule => /\ op' = "load"
                           /\ pc' = IF primary.exists THEN "read" ELSE "stamp"]_vars

\* C24: after a successful save(R) with caching enabled the cached record is
\* R and the cached timestamp is the modification time of the primary file;
\* the load() that follows, with no external change and no
\* invalidate_cache() in between, returns R and does not read the file.
C24_SaveWarmsCache ==
    /\ (SaveReturned /\ cache_enabled) =>
          /\ cache = ret.obj
          /\ cache_ts = primary.mtime
    /\ (/\ ret.op = "load"
        /\ cache_enabled
        /\ ret.saved # NoObj
        /\ ~ret.after_invalidate
        /\ ret.step # "stat") =>
          /\ ret.outcome = "ok"
          /\ ret.from_cache
          /\ ret.obj = ret.saved

\* The load() after a save(R) has returned R from the cache.
C24_Witness ==
    /\ LoadReturned
    /\ cache_enabled
    /\ ret.saved # NoObj
    /\ ret.from_cache
    /\ ret.obj = ret.saved
    /\ cache_ts = primary.mtime

\* C25: in every state reached by load(), save() and external edits of the
\* primary file, a backup file that exists holds complete content that
\* satisfies the Record Schema.
C25_BackupKnownGood ==
    backup.exists => SatisfiesSchema(backup)

\* C27: no step of load() or save(), a failing save() included, changes a
\* field of the cached record, which a caller holds.
C27_CachedRecordNotMutated ==
    [][(op # "idle" /\ cache # NoObj /\ cache \in Roots') =>
          heap'[cache] = heap[cache]]_vars

\* C28: when the caller passes a record to save(), its ContactInfo and every
\* Job, Skill and Achievement in it satisfy their validation rules, whatever
\* constructions and assignments the caller made before.
C28_SubEntitiesSound ==
    (op = "save" /\ pc = "stamp") =>
        /\ ValidContactInfo(heap[data].contact_info)
        /\ \A i \in 1..Len(heap[data].jobs) : ValidJob(heap[data].jobs[i])
        /\ \A i \in 1..Len(heap[data].skills) : ValidSkill(heap[data].skills[i])

\* A call of one of the operations that are not save(): load() with a
\* primary file, invalidate_cache(), has_backup(), get_backup_path().
ReadOnlyCall ==
    \/ /\ op = "idle"
       /\ ret'.op \in {"load", "invalidate_cache", "has_backup", "get_backup_path"}
    \/ op = "idle" /\ op' = "load" /\ pc' = "read"
    \/ op = "load" /\ pc = "read"

\* C29: load() on an existing primary file, invalidate_cache(), has_backup()
\* and get_backup_path() change none of the three files; the backup file
\* changes only in the step of save() that copies the existing primary file
\* to it, and never when backups are disabled.
C29_OnlySaveWrites ==
    [][/\ ReadOnlyCall => UNCHANGED files
       /\ backup' # backup =>
             /\ pc = "backup"
             /\ backup_enabled
             /\ primary.exists
             /\ backup' \in {BackupCopy(primary), PartialFile(clock)}]_vars

\* has_backup() has answered True after a save() made the backup file, and
\* the three files are what they were.
C29_Witness ==
    /\ ret.op = "has_backup"
    /\ ret.outcome = "True"
    /\ backup_enabled
    /\ backup.exists
    /\ primary = pre.primary
    /\ backup = pre.backup

(***************************************************************************)
(* Interleaved calls.  The engine has no lock: two threads of one process   *)
(* (a UI and its background worker) share the manager, its cache and the    *)
(* three paths, and an external writer shares the primary file.  Each       *)
(* thread makes one call, save() of its own record or load(); a step is one *)
(* statement of the call that touches a file or the cache.                  *)
(***************************************************************************)
\* The record thread t passes to save().
WriterRecord(t) ==
    NewCareerData([version |-> "1.0",
                   contact_info |-> [TestContact EXCEPT !.name = IF t = 1 THEN "Writer 1" ELSE "Writer 2"],
                   jobs |-> <<AcmeJob>>, skills |-> <<SqlSkill>>, skipped_skills |-> <<>>], 1)

\* The engine of a process that starts with the primary file a first run left
\* at time 1; the second thread's record may be one the schema rejects.
ConcInit ==
    /\ primary = MkFile("json", ModelDump(EmptyCareerData(1)), 1)
    /\ backup = Absent
    /\ temp = Absent
    /\ cache = NoObj
    /\ cache_ts = NoTs
    /\ backup_enabled \in BOOLEAN
    /\ cache_enabled \in BOOLEAN
    /\ \E e \in {TestContact.email, BadEmail} :
          heap = [o \in Objs |->
                    IF o = 1 THEN WriterRecord(1)
                    ELSE IF o = 2 THEN [WriterRecord(2) EXCEPT !.contact_info.email = e]
                    ELSE Unalloc]
    /\ held = NoObj
    /\ clock = 2
    /\ op = "idle"
    /\ pc = "idle"
    /\ data = NoObj
    /\ data_dict = NoDoc
    /\ err = NoErr
    /\ ret = NoRet
    /\ pre = NoPre
    /\ hist = NoHist
    /\ used = 0
    /\ edited = FALSE
    /\ job = NoJob
    /\ skill = NoSkill
    /\ th = NoThreads

\* What the single-caller specification uses and the threads do not.
sequential == <<held, op, pc, data, data_dict, err, ret, pre, hist, job, skill>>

\* Thread t goes to step p.
Goto(t, p) == th' = [th EXCEPT ![t].pc = p]

\* The call of thread t ends with result r.
Done(t, r) == th' = [th EXCEPT ![t].pc = "done", ![t].result = r]

\* The statement of thread t's save() at step p raised an error of type ty.
Fails(t, ty, p, next) ==
    th' = [th EXCEPT ![t].err = [type |-> ty, step |-> p, restore |-> "none"],
                     ![t].pc = next]

\* Thread t calls save(heap[t]) or load().
ConcCall(t, c) ==
    /\ used < MaxEvents
    /\ used' = used + 1
    /\ th[t].pc = "idle"
    /\ th' = [th EXCEPT ![t].call = c, ![t].pc = IF c = "save" THEN "stamp" ELSE "check"]
    /\ UNCHANGED <<files, cache, cache_ts, config, heap, clock, edited, sequential>>

\* 1. data.last_updated = datetime.now(); data_dict = json.loads(data.model_dump_json())
ConcStamp(t) ==
    /\ th[t].pc = "stamp"
    /\ heap' = [heap EXCEPT ![t].last_updated = clock]
    /\ th' = [th EXCEPT ![t].data_dict = ModelDump([heap[t] EXCEPT !.last_updated = clock]),
                        ![t].pc = "backup"]
    /\ UNCHANGED <<files, cache, cache_ts, config, clock, used, edited, sequential>>

\* 2. if self.backup_enabled and self.file_path.exists(): self._create_backup()
ConcBackup(t) ==
    /\ th[t].pc = "backup"
    /\ backup' = IF backup_enabled /\ primary.exists THEN BackupCopy(primary) ELSE backup
    /\ Goto(t, "write")
    /\ UNCHANGED <<primary, temp, cache, cache_ts, config, heap, clock, used, edited, sequential>>

\* 3. json.dump(data_dict, f) into the temp file, whatever it held
ConcWriteTemp(t) ==
    /\ th[t].pc = "write"
    /\ temp' = MkFile("json", th[t].data_dict, clock)
    /\ Goto(t, "verify")
    /\ UNCHANGED <<primary, backup, cache, cache_ts, config, heap, clock, used, edited, sequential>>

\* 4. open(temp_path), json.load, CareerData: of the temp file as it is now.
\* open raises FileNotFoundError when another call has moved or unlinked it.
ConcVerify(t) ==
    /\ th[t].pc = "verify"
    /\ IF ~temp.exists THEN Fails(t, "file", "verify", "cleanup")
       ELSE IF temp.kind = "json" /\ IsObject(temp.doc) /\ ValidCareerData(temp.doc)
       THEN Goto(t, "rename")
       ELSE Fails(t, IF temp.kind = "json" THEN "validation" ELSE "file", "verify", "cleanup")
    /\ UNCHANGED <<files, cache, cache_ts, config, heap, clock, used, edited, sequential>>

\* 5. shutil.move(temp_path, file_path)
ConcRename(t) ==
    /\ th[t].pc = "rename"
    /\ IF temp.exists
       THEN /\ primary' = temp
            /\ temp' = Absent
            /\ Goto(t, "update_cache")
       ELSE /\ UNCHANGED <<primary, temp>>
            /\ Fails(t, "file", "rename", "cleanup")
    /\ UNCHANGED <<backup, cache, cache_ts, config, heap, clock, used, edited, sequential>>

\* 6. if self.cache_enabled: self._update_cache(data); return True
ConcUpdateCache(t) ==
    /\ th[t].pc = "update_cache"
    /\ IF cache_enabled
       THEN /\ cache' = t
            /\ cache_ts' = CacheStamp
       ELSE UNCHANGED <<cache, cache_ts>>
    /\ Done(t, "True")
    /\ UNCHANGED <<files, config, heap, clock, used, edited, sequential>>

\* except Exception: if temp_path.exists(): temp_path.unlink(); raise e
ConcCleanup(t) ==
    /\ th[t].pc = "cleanup"
    /\ temp' = Absent
    /\ Goto(t, "recover")
    /\ UNCHANGED <<primary, backup, cache, cache_ts, config, heap, clock, used, edited, sequential>>

\* The outer handlers: _restore_from_backup when backups are enabled.
ConcRecover(t) ==
    /\ th[t].pc = "recover"
    /\ IF backup_enabled /\ backup.exists
       THEN /\ primary' = PartialFile(clock)
            /\ Goto(t, "restore")
       ELSE /\ UNCHANGED primary
            /\ Done(t, ErrorName(th[t].err))
    /\ UNCHANGED <<backup, temp, cache, cache_ts, config, heap, clock, used, edited, sequential>>

\* copy2 completes; self.invalidate_cache(); the handler raises.
ConcRestore(t) ==
    /\ th[t].pc = "restore"
    /\ primary' = RestoreCopy(backup)
    /\ cache' = NoObj
    /\ cache_ts' = NoTs
    /\ Done(t, ErrorName(th[t].err))
    /\ UNCHANGED <<backup, temp, config, heap, clock, used, edited, sequential>>

\* load(): the cache check; the cached record is returned or the file is read.
ConcLoadCheck(t) ==
    /\ th[t].pc = "check"
    /\ primary.exists
    /\ IF CacheServes
       THEN th' = [th EXCEPT ![t].pc = "done", ![t].result = "ok", ![t].obj = cache]
       ELSE Goto(t, "read")
    /\ UNCHANGED <<files, cache, cache_ts, config, heap, clock, used, edited, sequential>>

\* open, json.load and CareerData on the primary file as it is now.
ConcLoadRead(t) ==
    /\ th[t].pc = "read"
    /\ IF primary.kind = "json" /\ IsObject(primary.doc) /\ ValidCareerData(primary.doc)
       THEN /\ heap' = [heap EXCEPT ![t] = CareerDataFromDict(primary.doc)]
            /\ th' = [th EXCEPT ![t].obj = t,
                                ![t].pc = IF cache_enabled THEN "cache" ELSE "done",
                                ![t].result = IF cache_enabled THEN "none" ELSE "ok"]
       ELSE /\ UNCHANGED heap
            /\ Done(t, IF primary.kind = "json" /\ IsObject(primary.doc)
                       THEN "CareerDataValidationError" ELSE "CareerDataFileError")
    /\ UNCHANGED <<files, cache, cache_ts, config, clock, used, edited, sequential>>

\* self._update_cache(career_data): the record read, and the mtime the file
\* has now; return career_data
ConcLoadCache(t) ==
    /\ th[t].pc = "cache"
    /\ cache' = t
    /\ cache_ts' = CacheStamp
    /\ Done(t, "ok")
    /\ UNCHANGED <<files, config, heap, clock, used, edited, sequential>>

\* An external writer replaces the primary file by an edited record at a
\* later time, whatever the threads are doing.
ConcExternalWrite ==
    /\ used < MaxEvents
    /\ used' = used + 1
    /\ primary.exists
    /\ primary.kind = "json"
    /\ IsObject(primary.doc)
    /\ clock' = clock + 1
    /\ primary' = MkFile("json",
                         [primary.doc EXCEPT !.contact_info.name =
                             IF @ = "Modified" THEN "Test User" ELSE "Modified"],
                         clock + 1)
    /\ edited' = TRUE
    /\ UNCHANGED <<backup, temp, cache, cache_ts, config, heap, th, sequential>>

ConcNext ==
    \/ \E t \in Threads, c \in {"save", "load"} : ConcCall(t, c)
    \/ \E t \in Threads : ConcStamp(t)
    \/ \E t \in Threads : ConcBackup(t)
    \/ \E t \in Threads : ConcWriteTemp(t)
    \/ \E t \in Threads : ConcVerify(t)
    \/ \E t \in Threads : ConcRename(t)
    \/ \E t \in Threads : ConcUpdateCache(t)
    \/ \E t \in Threads : ConcCleanup(t)
    \/ \E t \in Threads : ConcRecover(t)
    \/ \E t \in Threads : ConcRestore(t)
    \/ \E t \in Threads : ConcLoadCheck(t)
    \/ \E t \in Threads : ConcLoadRead(t)
    \/ \E t \in Threads : ConcLoadCache(t)
    \/ ConcExternalWrite

SpecConc == ConcInit /\ [][ConcNext]_vars

\* C26: with one call of load() or save() and an external writer that sets a
\* later modification time at each write, once the call is over the engine
\* does not hold a cached timestamp greater than or equal to the
\* modification time of the primary file together with a cached record that
\* differs from the content of the file.
C26_RacingWriteDetected ==
    (/\ \A t \in Threads : th[t].pc \in {"idle", "done"}
     /\ \E t \in Threads : th[t].pc = "idle"
     /\ cache # NoObj
     /\ cache_ts # NoTs
     /\ primary.exists
     /\ cache_ts >= primary.mtime) =>
        Content(primary) = JsonContent(ModelDump(heap[cache]))

\* C30: when two interleaved save() calls are over and nothing else wrote the
\* primary file, if one of them returned True the primary file holds the
\* complete serialisation of a record whose save() returned True.
C30_SuccessfulSaveNotUndone ==
    (/\ \A t \in Threads : th[t].call = "save" /\ th[t].pc = "done"
     /\ ~edited
     /\ \E t \in Threads : th[t].result = "True") =>
        \E t \in Threads :
            /\ th[t].result = "True"
            /\ Content(primary) = JsonContent(th[t].data_dict)

====
